---- MODULE Spec2Model ----
(***************************************************************************)
(* A model of the scipion-fluo-singleparticle plugin: the domain objects   *)
(* of src/spfluo/objects/data.py (SetOfCoordinates3D, SetOfImages,         *)
(* FluoSet.copyItems, Transform), the step lists of the protocols and the  *)
(* thread launches of the napari viewers.                                  *)
(*                                                                         *)
(* Each subsystem has its own variables, initial predicate, next-state     *)
(* relation and specification; the variables of the other subsystems stay  *)
(* at their initial values under a subsystem's specification.              *)
(***************************************************************************)
EXTENDS Integers, Sequences, FiniteSets, TLC

VARIABLES
    \* SetOfCoordinates3D
    coords,        \* the stored coordinates, in objId order (the sqlite table)
    precedents,    \* _precedentsPointer: [isSet, items]
    cImages,       \* _images: [isNone, entries], entries a set of <<imgId, image>>
    cOp,           \* the last call on the set and what it returned
    \* Protocols
    protSteps,     \* per protocol, the inserted steps: [name, prerequisites, status]
    \* Viewers
    threads,       \* the threads started by the views, in start order
    csv,           \* the file coords.csv of the protocol's extra path
    viewerRead,    \* per thread, what its viewer has read from coords.csv
    \* SetOfImages
    imgSet,        \* [samplingRate, dim, items]
    imgOp,         \* the last call on the set: [name, image, before, result]
    \* FluoSet.copyItems
    copy,          \* the arguments and the locals of the running call
    dest,          \* the receiving set: the items appended to it
    \* Transform
    tf,            \* [matrix, made, composed, status]
    \* Matrix
    mat,           \* the array each Matrix object refers to, by content
    shared,        \* whether the two Matrix objects refer to one array
    linked,        \* the pairs <<x, y>> with x._copy(y) made and no setMatrix since
    mOp,           \* the last call: [name, target, source, before]
    \* Image origin
    oImage,        \* [dim, samplingRate, origin], the shifts of the origin in half units
    oOp,           \* the last call on the image
    \* ProtSingleParticleSeparate
    sepIn,         \* the input SetOfCoordinates3D: [precedents, coords]
    sep,           \* the running separateStep: its locals, the output set, the outputs
    \* ProtSingleParticleRefinement.createOutputStep
    outIn,         \* the inputs of the step: [particles, poses]
    outStep        \* the running step: its locals, the output set, the outputs

coordVars == <<coords, precedents, cImages, cOp>>

stepVars == <<protSteps>>

viewVars == <<threads, csv, viewerRead>>

imageVars == <<imgSet, imgOp>>

copyVars == <<copy, dest>>

transformVars == <<tf>>

matrixVars == <<mat, shared, linked, mOp>>

originVars == <<oImage, oOp>>

separateVars == <<sepIn, sep>>

outputVars == <<outIn, outStep>>

vars == <<coordVars, stepVars, viewVars, imageVars, copyVars, transformVars,
          matrixVars,
          originVars,
          separateVars,
          outputVars>>

notCoordVars == <<stepVars, viewVars, imageVars, copyVars, transformVars, matrixVars,
    originVars,
    separateVars,
    outputVars>>

notStepVars == <<coordVars, viewVars, imageVars, copyVars, transformVars, matrixVars,
    originVars,
    separateVars,
    outputVars>>

notViewVars == <<coordVars, stepVars, imageVars, copyVars, transformVars, matrixVars,
    originVars,
    separateVars,
    outputVars>>

notImageVars == <<coordVars, stepVars, viewVars, copyVars, transformVars, matrixVars,
    originVars,
    separateVars,
    outputVars>>

notCopyVars == <<coordVars, stepVars, viewVars, imageVars, transformVars, matrixVars,
    originVars,
    separateVars,
    outputVars>>

notTransformVars == <<coordVars, stepVars, viewVars, imageVars, copyVars, matrixVars,
    originVars,
    separateVars,
    outputVars>>

notMatrixVars == <<coordVars, stepVars, viewVars, imageVars, copyVars, transformVars,
    originVars,
    separateVars,
    outputVars>>

notOriginVars == <<coordVars, stepVars, viewVars, imageVars, copyVars, transformVars, matrixVars,
    separateVars,
    outputVars>>

notSeparateVars == <<coordVars, stepVars, viewVars, imageVars, copyVars, transformVars, matrixVars, originVars,
    outputVars>>

notOutputVars == <<coordVars, stepVars, viewVars, imageVars, copyVars, transformVars, matrixVars, originVars, separateVars>>

(***************************************************************************)
(* Protocol steps                                                          *)
(***************************************************************************)

Protocols ==
    {"ProtSingleParticleRefinement", "ProtSingleParticlePickingTrain",
     "ProtSPFluoPickingTrain"}

\* Protocol._insertFunctionStep without prerequisites: the step is added at
\* the end of the list and depends on the step before it.
insertFunctionStep(steps, name) ==
    Append(steps, [name |-> name,
                   prerequisites |-> IF steps = <<>> THEN {} ELSE {Len(steps)},
                   status |-> "new"])

\* The steps in a wrong order.
insertAllStepsRefinementSwapped ==
    insertFunctionStep(insertFunctionStep(insertFunctionStep(<<>>,
        "reconstructionStep"), "prepareStep"), "createOutputStep")

\* ProtSingleParticleRefinement._insertAllSteps
insertAllStepsRefinement ==
    insertFunctionStep(insertFunctionStep(insertFunctionStep(<<>>,
        "prepareStep"), "reconstructionStep"), "createOutputStep")

\* ProtSingleParticlePickingTrain._insertAllSteps
insertAllStepsPickingTrain ==
    insertFunctionStep(insertFunctionStep(<<>>, "prepareStep"), "trainStep")

\* ProtSPFluoPickingTrain._insertAllSteps
insertAllStepsSPFluoPickingTrain ==
    insertFunctionStep(insertFunctionStep(<<>>, "prepareStep"), "trainStep")

insertAllSteps(p) ==
    CASE p = "ProtSingleParticleRefinement" -> insertAllStepsRefinement
      [] p = "ProtSingleParticlePickingTrain" -> insertAllStepsPickingTrain
      [] p = "ProtSPFluoPickingTrain" -> insertAllStepsSPFluoPickingTrain

StepsIdle == protSteps = [p \in Protocols |-> <<>>]

\* The protocol is launched: its steps are inserted.
InsertAllSteps(p) ==
    /\ protSteps[p] = <<>>
    /\ protSteps' = [protSteps EXCEPT ![p] = insertAllSteps(p)]
    /\ UNCHANGED notStepVars

\* The step executor can start a step when it is new, every prerequisite
\* has finished, no step of the protocol has failed and none is running.
Runnable(steps, i) ==
    /\ steps[i].status = "new"
    /\ \A j \in steps[i].prerequisites : steps[j].status = "finished"
    /\ \A j \in DOMAIN steps : steps[j].status \notin {"failed", "running"}

\* The executor starts the first runnable step.
StartStep(p) ==
    /\ \E i \in DOMAIN protSteps[p] :
          /\ Runnable(protSteps[p], i)
          /\ \A j \in 1..(i - 1) : ~Runnable(protSteps[p], j)
          /\ protSteps' = [protSteps EXCEPT ![p][i].status = "running"]
    /\ UNCHANGED notStepVars

\* The running step returns.
FinishStep(p) ==
    /\ \E i \in DOMAIN protSteps[p] :
          /\ protSteps[p][i].status = "running"
          /\ protSteps' = [protSteps EXCEPT ![p][i].status = "finished"]
    /\ UNCHANGED notStepVars

\* The running step raises (a failed job, a missing voxel size, an
\* unsupported file extension).
FailStep(p) ==
    /\ \E i \in DOMAIN protSteps[p] :
          /\ protSteps[p][i].status = "running"
          /\ protSteps' = [protSteps EXCEPT ![p][i].status = "failed"]
    /\ UNCHANGED notStepVars

(***************************************************************************)
(* Viewers                                                                 *)
(***************************************************************************)

MaxLaunches == 3

\* The images listed by a SetOfCoordinates3DDialog.
DialogImages == {"a", "b"}

\* The target called on the caller's thread: it returns when the viewer
\* has exited.
threadStartInline(ts, view, arg) ==
    Append(ts, [view |-> view, arg |-> arg, state |-> "exited"])

\* threading.Thread(target=..., args=...).start(): a new thread that has
\* yet to run its target; the caller goes on.
threadStart(ts, view, arg) ==
    Append(ts, [view |-> view, arg |-> arg, state |-> "started"])

\* self.coords of the dialog: the coordinates picked on each image.
DialogCoordinates == [im \in DialogImages |-> IF im = "a" THEN {1, 2} ELSE {3}]

\* A coordinates file that has not been written, or not been read.
NoFile == [done |-> FALSE, coords |-> {}]

\* save_translations(coords_im, csv_path): the file holds the coordinates
\* it is given.
save_translations(coords_im) == [done |-> TRUE, coords |-> coords_im]

ViewersIdle ==
    /\ threads = <<>>
    /\ csv = NoFile
    /\ viewerRead = [t \in 1..MaxLaunches |-> NoFile]

\* ImageView.show
ImageViewShow ==
    /\ Len(threads) < MaxLaunches
    /\ threads' = threadStart(threads, "ImageView", "image")
    /\ UNCHANGED <<csv, viewerRead, notViewVars>>

\* SetOfImagesView.show
SetOfImagesViewShow ==
    /\ Len(threads) < MaxLaunches
    /\ threads' = threadStart(threads, "SetOfImagesView", "images")
    /\ UNCHANGED <<csv, viewerRead, notViewVars>>

\* SetOfParticlesView.show
SetOfParticlesViewShow ==
    /\ Len(threads) < MaxLaunches
    /\ threads' = threadStart(threads, "SetOfParticlesView", "particles")
    /\ UNCHANGED <<csv, viewerRead, notViewVars>>

\* SetOfCoordinates3DDialog.doubleClickOnFluoimage: the coordinates of the
\* image are gathered, then the thread is started with them.
DoubleClickOnFluoimage(im) ==
    /\ Len(threads) < MaxLaunches
    /\ threads' = threadStart(threads, "SetOfCoordinates3DDialog", im)
    /\ UNCHANGED <<csv, viewerRead, notViewVars>>

\* lanchNapariForFluoImage up to runJob: the thread of a double-click writes
\* its coordinates to coords.csv, the one path every thread of the dialog
\* gets from _getExtraPath.
SaveTranslations(t) ==
    /\ t \in DOMAIN threads
    /\ threads[t].view = "SetOfCoordinates3DDialog"
    /\ threads[t].state = "started"
    /\ threads' = [threads EXCEPT ![t].state = "saved"]
    /\ csv' = save_translations(DialogCoordinates[threads[t].arg])
    /\ UNCHANGED <<viewerRead, notViewVars>>

\* A started thread runs its target up to runJob: the viewer is running
\* and the thread waits for it.  The thread of a double-click has saved
\* its coordinates before.
RunJob(t) ==
    /\ t \in DOMAIN threads
    /\ threads[t].state =
          (IF threads[t].view = "SetOfCoordinates3DDialog" THEN "saved" ELSE "started")
    /\ threads' = [threads EXCEPT ![t].state = "viewing"]
    /\ UNCHANGED <<csv, viewerRead, notViewVars>>

\* The viewer started with --coords csv_path reads the file as it is then.
ViewerReadsCoords(t) ==
    /\ t \in DOMAIN threads
    /\ threads[t].view = "SetOfCoordinates3DDialog"
    /\ threads[t].state = "viewing"
    /\ ~viewerRead[t].done
    /\ viewerRead' = [viewerRead EXCEPT ![t] = csv]
    /\ UNCHANGED <<threads, csv, notViewVars>>

\* The viewer of a thread exits: runJob returns and the thread ends.
ViewerExit(t) ==
    /\ t \in DOMAIN threads
    /\ threads[t].state = "viewing"
    /\ threads[t].view = "SetOfCoordinates3DDialog" => viewerRead[t].done
    /\ threads' = [threads EXCEPT ![t].state = "exited"]
    /\ UNCHANGED <<csv, viewerRead, notViewVars>>

(***************************************************************************)
(* SetOfImages                                                             *)
(***************************************************************************)

MaxImages == 3

\* SamplingRate.getSR values: the empty list reads as None.
SamplingRates == {<<>>, <<1, 1>>, <<1, 2>>}

\* ImageDim values: the empty list reads as None.
Dims == {<<>>, <<4, 4, 2>>, <<8, 8, 4>>}

\* The images that can be handed to append.  setFileName loads the data and
\* sets the dimensions together; an image read back from a set has its
\* stored attributes but no data (_img is not stored).
ImageInputs ==
    {im \in [img : BOOLEAN, samplingRate : SamplingRates, dim : Dims] :
        im.img => im.dim # <<>>}

\* Image.isEmpty
isEmpty(image) == ~image.img

\* Image.getSamplingRate / SetOfImages.getSamplingRate (None is <<>>)
getSamplingRate(x) == x.samplingRate

\* Image.getDim / SetOfImages.getDim (None is <<>>)
getDim(x) == x.dim

\* append without handing the set's sampling rate to the image.
appendKeepsImageRate(set, image) ==
    IF isEmpty(image) \/ getDim(image) = <<>>
          \/ (getDim(set) # <<>> /\ getDim(set) # getDim(image))
          \/ (getSamplingRate(set) # <<>> /\ getSamplingRate(image) # <<>>
                /\ getSamplingRate(set) # getSamplingRate(image))
    THEN [set |-> set, result |-> "ValueError"]
    ELSE [set |-> [samplingRate |-> IF getSamplingRate(set) = <<>>
                                    THEN getSamplingRate(image)
                                    ELSE getSamplingRate(set),
                   dim |-> getDim(image),
                   items |-> Append(set.items, image)],
          result |-> "ok"]

\* append storing the dimensions of every image.
appendOverwritesDim(set, image) ==
    IF isEmpty(image) \/ getDim(image) = <<>>
          \/ (getSamplingRate(set) # <<>> /\ getSamplingRate(image) # <<>>
                /\ getSamplingRate(set) # getSamplingRate(image))
    THEN [set |-> set, result |-> "ValueError"]
    ELSE [set |-> [samplingRate |-> IF getSamplingRate(set) = <<>>
                                    THEN getSamplingRate(image)
                                    ELSE getSamplingRate(set),
                   dim |-> getDim(image),
                   items |-> Append(set.items,
                                [image EXCEPT !.samplingRate =
                                    IF getSamplingRate(set) = <<>>
                                    THEN getSamplingRate(image)
                                    ELSE getSamplingRate(set)])],
          result |-> "ok"]

\* SetOfImages.append, the sampling rates (lines 767-777): the image as
\* it is after the reconciliation, the set likewise, and whether it raised.
reconcileSamplingRate(set, image) ==
    LET sr == getSamplingRate(set)
        im_sr == getSamplingRate(image)
    IN  IF sr # <<>> /\ im_sr = <<>>
        THEN [set |-> set, image |-> [image EXCEPT !.samplingRate = sr], raised |-> FALSE]
        ELSE IF sr # <<>> /\ im_sr # <<>>
        THEN [set |-> set, image |-> image, raised |-> sr # im_sr]
        ELSE IF sr = <<>> /\ im_sr # <<>>
        THEN [set |-> [set EXCEPT !.samplingRate = im_sr], image |-> image, raised |-> FALSE]
        ELSE [set |-> set, image |-> image, raised |-> FALSE]

\* SetOfImages.append, the dimensions (lines 779-787).
reconcileDim(set, image) ==
    LET dim == getDim(set)
        im_dim == getDim(image)
    IN  IF im_dim = <<>>
        THEN [set |-> set, raised |-> TRUE]
        ELSE IF dim # <<>>
        THEN [set |-> set, raised |-> dim # im_dim]
        ELSE [set |-> [set EXCEPT !.dim = im_dim], raised |-> FALSE]

\* SetOfImages.append
append(set, image) ==
    IF isEmpty(image) THEN [set |-> set, result |-> "ValueError"]
    ELSE LET s == reconcileSamplingRate(set, image)
         IN  IF s.raised THEN [set |-> s.set, result |-> "ValueError"]
             ELSE LET d == reconcileDim(s.set, s.image)
                  IN  IF d.raised THEN [set |-> d.set, result |-> "ValueError"]
                      ELSE [set |-> [d.set EXCEPT !.items = Append(@, s.image)],
                            result |-> "ok"]

EmptySet == [samplingRate |-> <<>>, dim |-> <<>>, items |-> <<>>]

NoImageOp ==
    [name |-> "none", image |-> [img |-> FALSE, samplingRate |-> <<>>, dim |-> <<>>],
     before |-> EmptySet, result |-> "ok"]

ImagesIdle ==
    /\ imgSet = EmptySet
    /\ imgOp = NoImageOp

\* SetOfImages.append(image)
SetOfImagesAppend(image) ==
    /\ Len(imgSet.items) < MaxImages
    /\ imgSet' = append(imgSet, image).set
    /\ imgOp' = [name |-> "append", image |-> image, before |-> imgSet,
                  result |-> append(imgSet, image).result]
    /\ UNCHANGED notImageVars

\* SetOfImages.setSamplingRate
SetOfImagesSetSamplingRate(sr) ==
    /\ imgSet' = [imgSet EXCEPT !.samplingRate = sr]
    /\ imgOp' = [NoImageOp EXCEPT !.name = "setSamplingRate", !.before = imgSet]
    /\ UNCHANGED notImageVars

(***************************************************************************)
(* FluoSet.copyItems                                                       *)
(***************************************************************************)

MaxItems == 3

\* The sets copyItems can be given: items with ids 1..n, enabled or not.
OtherSets ==
    UNION {{[k \in 1..n |-> [id |-> k, enabled |-> e[k]]] : e \in [1..n -> BOOLEAN]} :
              n \in 0..MaxItems}

\* The itemDataIterator: one data row per item of otherSet, row k for the
\* k-th call of next().
nextRow(iterPos) == iterPos + 1

\* Disabled items are skipped whatever copyDisabledItems says.
shouldCopyEnabledOnly(copyDisabledItems, item) == item.enabled

\* Line 667: copy items if enabled or copyDisabledItems=True.
shouldCopy(copyDisabledItems, item) == copyDisabledItems \/ item.enabled

\* The data row of a skipped item is left in the iterator.
skipDisabledRowForgotten(hasIter, iterPos) == iterPos

\* Lines 676-678: the data row of a disabled item is skipped.
skipDisabledRow(hasIter, iterPos) == IF hasIter THEN iterPos + 1 ELSE iterPos

\* Lines 665-678: one iteration of the loop of copyItems on item c.idx of
\* otherSet; [c, dest] after it.  updateItemCallback sets _appendItem to
\* False on the items whose id is in c.rejects.
copyItemsBody(c, d) ==
    LET item == c.otherSet[c.idx]
    IN  IF shouldCopy(c.copyDisabledItems, item)
        THEN LET newItem == [id |-> item.id, cloned |-> c.doClone]
                 row == IF c.hasIter THEN nextRow(c.iterPos) ELSE 0
                 appendItem == ~(c.hasCallback /\ item.id \in c.rejects)
             IN  [c |-> [c EXCEPT !.idx = @ + 1,
                                  !.iterPos = IF c.hasCallback /\ c.hasIter
                                              THEN @ + 1 ELSE @,
                                  !.calls = IF c.hasCallback
                                            THEN Append(@, [item |-> item.id, row |-> row])
                                            ELSE @],
                  d |-> IF appendItem THEN Append(d, newItem) ELSE d]
        ELSE [c |-> [c EXCEPT !.idx = @ + 1,
                              !.iterPos = skipDisabledRow(c.hasIter, @)],
              d |-> d]

NoCopy ==
    [running |-> FALSE, otherSet |-> <<>>, hasCallback |-> FALSE, hasIter |-> FALSE,
     copyDisabledItems |-> FALSE, doClone |-> TRUE, rejects |-> {}, idx |-> 1,
     iterPos |-> 0, calls |-> <<>>]

CopyIdle ==
    /\ copy = NoCopy
    /\ dest = <<>>

\* copyItems is called on an empty receiving set.
CopyItemsCall(otherSet, hasCallback, hasIter, copyDisabledItems, doClone, rejects) ==
    /\ ~copy.running
    /\ copy.otherSet = <<>>
    /\ otherSet # <<>>
    /\ hasCallback \/ rejects = {}
    /\ copy' = [NoCopy EXCEPT !.running = TRUE, !.otherSet = otherSet,
                              !.hasCallback = hasCallback, !.hasIter = hasIter,
                              !.copyDisabledItems = copyDisabledItems,
                              !.doClone = doClone, !.rejects = rejects]
    /\ dest' = <<>>
    /\ UNCHANGED notCopyVars

\* The loop of copyItems handles its next item.
CopyItemsIteration ==
    /\ copy.running
    /\ copy.idx <= Len(copy.otherSet)
    /\ copy' = copyItemsBody(copy, dest).c
    /\ dest' = copyItemsBody(copy, dest).d
    /\ UNCHANGED notCopyVars

\* The loop is over: copyItems returns.
CopyItemsReturn ==
    /\ copy.running
    /\ copy.idx > Len(copy.otherSet)
    /\ copy' = [copy EXCEPT !.running = FALSE]
    /\ UNCHANGED <<dest, notCopyVars>>

(***************************************************************************)
(* Transform                                                               *)
(***************************************************************************)

MaxCompose == 3

\* The six factory types of Transform.
FactoryTypes == {"rotX90c", "rotY90c", "rotZ90c", "rotX90cc", "rotY90cc", "rotZ90cc"}

\* np.eye(4)
Eye4 == <<<<1, 0, 0, 0>>, <<0, 1, 0, 0>>, <<0, 0, 1, 0>>, <<0, 0, 0, 1>>>>

\* Transform.create: the matrix of each factory type, as written in the
\* source; any other type raises.
create(type) ==
    CASE type = "rotX90c" ->
            [status |-> "ok",
             matrix |-> <<<<1, 0, 0, 0>>, <<0, 0, 1, 0>>, <<0, -1, 0, 0>>, <<0, 0, 0, 1>>>>]
      [] type = "rotX90cc" ->
            [status |-> "ok",
             matrix |-> <<<<1, 0, 0, 0>>, <<0, 0, -1, 0>>, <<0, 1, 0, 0>>, <<0, 0, 0, 1>>>>]
      [] type = "rotY90c" ->
            [status |-> "ok",
             matrix |-> <<<<1, 0, -1, 0>>, <<0, 1, 0, 0>>, <<1, 0, 0, 0>>, <<0, 0, 0, 1>>>>]
      [] type = "rotY90cc" ->
            [status |-> "ok",
             matrix |-> <<<<1, 0, 1, 0>>, <<0, 1, 0, 0>>, <<-1, 0, 0, 0>>, <<0, 0, 0, 1>>>>]
      [] type = "rotZ90c" ->
            [status |-> "ok",
             matrix |-> <<<<0, 1, 0, 0>>, <<-1, 0, 0, 0>>, <<0, 0, 1, 0>>, <<0, 0, 0, 1>>>>]
      [] type = "rotZ90cc" ->
            [status |-> "ok",
             matrix |-> <<<<0, -1, 0, 0>>, <<1, 0, 0, 0>>, <<0, 0, 1, 0>>, <<0, 0, 0, 1>>>>]
      [] OTHER -> [status |-> "Exception", matrix |-> Eye4]

\* np.matmul on 4x4 matrices
matmul(A, B) ==
    [i \in 1..4 |-> [j \in 1..4 |->
        A[i][1] * B[1][j] + A[i][2] * B[2][j] + A[i][3] * B[3][j] + A[i][4] * B[4][j]]]

\* Transform.composeTransform: matrix times the current matrix
composeTransform(current, matrix) == matmul(matrix, current)

\* Transform.getRotationMatrix: M[:3, :3]
getRotationMatrix(M) == [i \in 1..3 |-> [j \in 1..3 |-> M[i][j]]]

\* Transform.getShifts: M[:3, 3]
getShifts(M) == [i \in 1..3 |-> M[i][4]]

\* Transform.__init__ without a matrix: the identity.
TransformIdle ==
    tf = [matrix |-> Eye4, made |-> "none", composed |-> <<>>, status |-> "ok"]

\* t = Transform.create(type)
TransformCreate(type) ==
    /\ tf' = [matrix |-> create(type).matrix,
               made |-> IF create(type).status = "ok" THEN type ELSE "none",
               composed |-> <<>>,
               status |-> create(type).status]
    /\ UNCHANGED notTransformVars

\* t.composeTransform(Transform.create(type).getMatrix())
TransformCompose(type) ==
    /\ Len(tf.composed) < MaxCompose
    /\ tf' = [tf EXCEPT !.matrix = composeTransform(@, create(type).matrix),
                          !.composed = Append(@, type),
                          !.status = "ok"]
    /\ UNCHANGED notTransformVars

(***************************************************************************)
(* Matrix                                                                  *)
(***************************************************************************)

\* Two Matrix objects.
MatrixObjects == {"a", "b"}

\* The cells setValue is called on and the values it is given.
MatrixCells == {<<1, 1>>, <<1, 4>>}

MatrixValues == {0, 7}

Other(x) == IF x = "a" THEN "b" ELSE "a"

\* Matrix.getMatrix: the internal array.
getMatrix(m, x) == m[x]

\* self.setMatrix(other.getMatrix()): the array of other itself is kept.
matrixCopyAliased(m, sh, x, y) ==
    [mat |-> [m EXCEPT ![x] = getMatrix(m, y)],
     shared |-> IF x = y THEN sh ELSE TRUE]

\* Matrix._copy: self.setMatrix(np.copy(other.getMatrix())): self refers to
\* a new array with the values of other's.
matrixCopy(m, sh, x, y) ==
    [mat |-> [m EXCEPT ![x] = getMatrix(m, y)],
     shared |-> FALSE]

\* Matrix.setValue: self._matrix[i, j] = value, written into the array, so
\* every object that refers to the array sees it.
setValue(m, sh, x, i, j, value) ==
    [o \in MatrixObjects |->
        IF o = x \/ sh THEN [m[o] EXCEPT ![i][j] = value] ELSE m[o]]

\* Matrix.__init__: each object has its own np.eye(4).
MatrixIdle ==
    /\ mat = [o \in MatrixObjects |-> Eye4]
    /\ shared = FALSE
    /\ linked = {}
    /\ mOp = [name |-> "none", target |-> "a", source |-> "a",
              before |-> [o \in MatrixObjects |-> Eye4]]

\* x._copy(y)
MatrixCopy(x, y) ==
    /\ mat' = matrixCopy(mat, shared, x, y).mat
    /\ shared' = matrixCopy(mat, shared, x, y).shared
    /\ linked' = {l \in linked : x \notin {l[1], l[2]}}
                    \cup (IF x = y THEN {} ELSE {<<x, y>>})
    /\ mOp' = [name |-> "_copy", target |-> x, source |-> y, before |-> mat]
    /\ UNCHANGED notMatrixVars

\* x.setValue(i, j, value)
MatrixSetValue(x, i, j, value) ==
    /\ mat' = setValue(mat, shared, x, i, j, value)
    /\ mOp' = [name |-> "setValue", target |-> x, source |-> x, before |-> mat]
    /\ UNCHANGED <<shared, linked, notMatrixVars>>

\* x.setMatrix(y.getMatrix()): x refers to the array of y.
MatrixSetMatrix(x, y) ==
    /\ x # y
    /\ mat' = [mat EXCEPT ![x] = getMatrix(mat, y)]
    /\ shared' = TRUE
    /\ linked' = {}
    /\ mOp' = [name |-> "setMatrix", target |-> x, source |-> y, before |-> mat]
    /\ UNCHANGED notMatrixVars

(***************************************************************************)
(* Image origin                                                            *)
(***************************************************************************)

\* Shifts are kept in half units (twice the value in A), so that x / -2. * s
\* stays an integer: the shift of x / -2. * s is -(x * s) half units.
OriginDims == {<<>>, <<4, 4, 2>>, <<8, 8, 4>>, <<3, 5, 1>>}

OriginSamplingRates == {<<>>, <<1, 1>>, <<1, 2>>, <<2, 3>>}

\* The shifts of the Transforms handed to setOrigin, in half units.
GivenShifts == {<<0, 0, 0>>, <<-2, -2, -2>>}

\* Transform(): the identity, no shifts.
NoShifts == <<0, 0, 0>>

\* Image._getDefaultOrigin: float(x) / -2. * sampling[0],
\* float(y) / -2. * sampling[0], float(z) * sampling[1].
getDefaultOrigin(im) ==
    IF im.samplingRate = <<>> \/ im.dim = <<>>
    THEN NoShifts
    ELSE <<-(im.dim[1] * im.samplingRate[1]),
           -(im.dim[2] * im.samplingRate[1]),
           2 * (im.dim[3] * im.samplingRate[2])>>

\* importFluoImagesStep: x / -2.0 * samplingRate[0],
\* y / -2.0 * samplingRate[0], z / -2.0 * samplingRate[1].
importOrigin(dim, samplingRate) ==
    <<-(dim[1] * samplingRate[1]),
      -(dim[2] * samplingRate[1]),
      -(dim[3] * samplingRate[2])>>

\* Image.__init__: no sampling rate, the identity as origin.
OriginIdle ==
    /\ oImage = [dim |-> <<>>, samplingRate |-> <<>>, origin |-> NoShifts]
    /\ oOp = "none"

\* Image(filename): a new image with the dimensions of its file.
ImageNew(dim) ==
    /\ oImage' = [dim |-> dim, samplingRate |-> <<>>, origin |-> NoShifts]
    /\ oOp' = "new"
    /\ UNCHANGED notOriginVars

\* Image.setSamplingRate
ImageSetSamplingRate(samplingRate) ==
    /\ samplingRate # <<>>
    /\ oImage' = [oImage EXCEPT !.samplingRate = samplingRate]
    /\ oOp' = "setSamplingRate"
    /\ UNCHANGED notOriginVars

\* Image.setOrigin(None)
ImageSetOriginNone ==
    /\ oImage' = [oImage EXCEPT !.origin = getDefaultOrigin(oImage)]
    /\ oOp' = "setOrigin(None)"
    /\ UNCHANGED notOriginVars

\* Image.setOrigin(newOrigin)
ImageSetOrigin(shifts) ==
    /\ oImage' = [oImage EXCEPT !.origin = shifts]
    /\ oOp' = "setOrigin"
    /\ UNCHANGED notOriginVars

\* The body of the loop of importFluoImagesStep for one file: a file
\* without dimensions raises.
ImportFluoImage(dim, samplingRate) ==
    /\ samplingRate # <<>>
    /\ dim # <<>>
    /\ oImage' = [dim |-> dim, samplingRate |-> samplingRate,
                 origin |-> importOrigin(dim, samplingRate)]
    /\ oOp' = "import"
    /\ UNCHANGED notOriginVars

(***************************************************************************)
(* ProtSingleParticleSeparate                                              *)
(***************************************************************************)

MaxSepCoords == 3

\* The imgIds of the images of a precedents set.
SepImages == {"a", "b"}

\* The precedents sets, in the order they are iterated.
SepPrecedents == {<<>>, <<"a">>, <<"a", "b">>, <<"b", "a">>}

\* The rows of an input set with these precedents: every coordinate was
\* picked on one of the images.
SepCoordinates(precs) ==
    UNION {[1..n -> {precs[k] : k \in DOMAIN precs}] : n \in 0..MaxSepCoords}

\* SetOfCoordinates3D.iterCoordinates(image) of pwfluo.objects: the
\* coordinates picked on the image, in id order, as [objId, imageId].
iterCoordinatesOfImage(coordinates, imgId) ==
    SelectSeq([k \in DOMAIN coordinates |-> [objId |-> k, imageId |-> coordinates[k]]],
              LAMBDA c : c.imageId = imgId)

\* Only the first of the two images is made a particle.
particlesOfFirst(imgId, i, coord) ==
    <<[image |-> imgId, coord |-> coord.objId, i |-> i, j |-> 0]>>

\* for j, im in enumerate([im1, im2]): the two particles of a coordinate,
\* at extracted-im-{i}-{j}.
particlesOf(imgId, i, coord) ==
    <<[image |-> imgId, coord |-> coord.objId, i |-> i, j |-> 0],
      [image |-> imgId, coord |-> coord.objId, i |-> i, j |-> 1]>>

SepNotRunning ==
    [pc |-> "idle", images |-> <<>>, image |-> "None", coords |-> <<>>, i |-> 0,
     pending |-> <<>>, out |-> <<>>, written |-> FALSE, defined |-> <<>>]

SeparateIdle ==
    /\ sepIn = [precedents |-> <<>>, coords |-> <<>>]
    /\ sep = SepNotRunning

\* separateStep begins: the output set is created and the loop over the
\* precedents starts.
SeparateStepBegin(precs, coordinates) ==
    /\ sep.pc \in {"idle", "finished", "failed"}
    /\ sepIn' = [precedents |-> precs, coords |-> coordinates]
    /\ sep' = [SepNotRunning EXCEPT !.pc = "images", !.images = precs]
    /\ UNCHANGED notSeparateVars

\* for image in input_coordinates.getPrecedents(): the next image, and the
\* iterator over its coordinates; after the last image the loop ends.
SeparateNextImage ==
    /\ sep.pc = "images"
    /\ sep.images # <<>>
    /\ sep' = [sep EXCEPT !.pc = "coords",
                          !.image = Head(sep.images),
                          !.images = Tail(sep.images),
                          !.coords = iterCoordinatesOfImage(sepIn.coords, Head(sep.images)),
                          !.i = 0]
    /\ UNCHANGED <<sepIn, notSeparateVars>>

\* for i, coord in enumerate(...): separate_centrioles_coords gives the two
\* images of the next coordinate.
SeparateCentrioles ==
    /\ sep.pc = "coords"
    /\ sep.coords # <<>>
    /\ sep' = [sep EXCEPT !.pc = "particles",
                          !.pending = particlesOf(sep.image, sep.i, Head(sep.coords)),
                          !.coords = Tail(sep.coords)]
    /\ UNCHANGED <<sepIn, notSeparateVars>>

\* separate_centrioles_coords raises: the step fails where it is.
SeparateFails ==
    /\ sep.pc = "coords"
    /\ sep.coords # <<>>
    /\ sep' = [sep EXCEPT !.pc = "failed"]
    /\ UNCHANGED <<sepIn, notSeparateVars>>

\* output_particles.append(p), and after the last one the next coordinate.
SeparateAppend ==
    /\ sep.pc = "particles"
    /\ sep' = IF sep.pending = <<>>
              THEN [sep EXCEPT !.pc = "coords", !.i = sep.i + 1]
              ELSE [sep EXCEPT !.out = Append(sep.out, Head(sep.pending)),
                               !.pending = Tail(sep.pending)]
    /\ UNCHANGED <<sepIn, notSeparateVars>>

\* The coordinates of the image are exhausted: back to the loop over images.
SeparateImageDone ==
    /\ sep.pc = "coords"
    /\ sep.coords = <<>>
    /\ sep' = [sep EXCEPT !.pc = "images"]
    /\ UNCHANGED <<sepIn, notSeparateVars>>

\* output_particles.write()
SeparateWrite ==
    /\ sep.pc = "images"
    /\ sep.images = <<>>
    /\ sep' = [sep EXCEPT !.pc = "write", !.written = TRUE]
    /\ UNCHANGED <<sepIn, notSeparateVars>>

\* self._defineOutputs(**{name: output_particles})
SeparateDefineOutputs ==
    /\ sep.pc = "write"
    /\ sep' = [sep EXCEPT !.pc = "finished",
                          !.defined = Append(sep.defined,
                              [name |-> "ParticlesSeparated", size |-> Len(sep.out),
                               written |-> sep.written])]
    /\ UNCHANGED <<sepIn, notSeparateVars>>

(***************************************************************************)
(* ProtSingleParticleRefinement.createOutputStep                           *)
(***************************************************************************)

MaxInputParticles == 2

\* The object ids of the input particles.
ParticleIds == 1..MaxInputParticles

\* The input sets: up to MaxInputParticles particles with different ids, in
\* any order.
InputParticles ==
    {ps \in UNION {[1..n -> ParticleIds] : n \in 0..MaxInputParticles} :
        \A i, j \in DOMAIN ps : i # j => ps[i] # ps[j]}

\* "particles/" + particle.strId() + ".ome.tiff"
poseKey(id) == <<"particles/", id, ".ome.tiff">>

\* The img_id values a poses file can hold: the names of the particles and
\* a name that is none of them.
PoseKeys == {poseKey(id) : id \in ParticleIds} \cup {<<"isotropic/", 1, ".ome.tiff">>}

Poses == {"r0", "r1"}

\* {img_id: t for t, img_id in read_poses(self.final_poses)}
PosesFiles == UNION {[keys -> Poses] : keys \in SUBSET PoseKeys}

\* transforms.get(key, identity): a missing entry reads as the identity.
lookupPoseOrIdentity(transforms, id) ==
    IF poseKey(id) \in DOMAIN transforms
    THEN [found |-> TRUE, pose |-> transforms[poseKey(id)]]
    ELSE [found |-> TRUE, pose |-> "identity"]

\* transforms["particles/" + particle.strId() + ".ome.tiff"]: KeyError when
\* the file has no such entry.
lookupPose(transforms, id) ==
    IF poseKey(id) \in DOMAIN transforms
    THEN [found |-> TRUE, pose |-> transforms[poseKey(id)]]
    ELSE [found |-> FALSE, pose |-> "KeyError"]

\* class outputs(Enum)
outputs == {"reconstructedVolume", "particles"}

OutputNotRunning ==
    [pc |-> "idle", particles |-> <<>>, out |-> <<>>, written |-> FALSE,
     defined |-> <<>>]

OutputIdle ==
    /\ outIn = [particles |-> <<>>, poses |-> [k \in {} |-> "r0"]]
    /\ outStep = OutputNotRunning

\* createOutputStep begins: the reconstruction is read, the output set is
\* created, the poses are read, the loop over the input particles starts.
CreateOutputStepBegin(particles, poses) ==
    /\ outStep.pc \in {"idle", "finished", "failed"}
    /\ outIn' = [particles |-> particles, poses |-> poses]
    /\ outStep' = [OutputNotRunning EXCEPT !.pc = "particles", !.particles = particles]
    /\ UNCHANGED notOutputVars

\* One turn of the loop: the pose of the next particle is looked up, the
\* rotated particle is created with it and appended.
CreateOutputParticle ==
    /\ outStep.pc = "particles"
    /\ outStep.particles # <<>>
    /\ LET id == Head(outStep.particles)
           r == lookupPose(outIn.poses, id)
       IN  outStep' =
             IF r.found
             THEN [outStep EXCEPT !.particles = Tail(outStep.particles),
                                  !.out = Append(outStep.out,
                                                 [id |-> id, transform |-> r.pose])]
             ELSE [outStep EXCEPT !.pc = "failed"]
    /\ UNCHANGED <<outIn, notOutputVars>>

\* os.link or Particle.from_filename raises: the step fails where it is.
CreateOutputLinkFails ==
    /\ outStep.pc = "particles"
    /\ outStep.particles # <<>>
    /\ lookupPose(outIn.poses, Head(outStep.particles)).found
    /\ outStep' = [outStep EXCEPT !.pc = "failed"]
    /\ UNCHANGED <<outIn, notOutputVars>>

\* output_particles.write()
CreateOutputWrite ==
    /\ outStep.pc = "particles"
    /\ outStep.particles = <<>>
    /\ outStep' = [outStep EXCEPT !.pc = "write", !.written = TRUE]
    /\ UNCHANGED <<outIn, notOutputVars>>

\* self._defineOutputs(reconstructedVolume=..., particles=...)
CreateOutputDefineOutputs ==
    /\ outStep.pc = "write"
    /\ outStep' = [outStep EXCEPT !.pc = "finished",
                                  !.defined = Append(outStep.defined,
                                      [names |-> outputs, size |-> Len(outStep.out),
                                       written |-> outStep.written])]
    /\ UNCHANGED <<outIn, notOutputVars>>

(***************************************************************************)
(* SetOfCoordinates3D                                                      *)
(***************************************************************************)

MaxCoords == 3

\* FluoImage: an object id and its _imgId.
FluoImage(i, id) == [objId |-> i, imgId |-> id]

\* Python's None where a FluoImage is expected.
NoneImage == FluoImage(0, "None")

\* The images a precedents set is built from.
Images == {FluoImage(1, "a"), FluoImage(2, "b")}

ImgIds == {im.imgId : im \in Images}

\* The SetOfFluoImages a precedents pointer can point to.
PrecedentChoices ==
    {s \in UNION {[1..n -> Images] : n \in 0..Cardinality(Images)} :
        \A i, j \in DOMAIN s : i # j => s[i] # s[j]}

\* Coordinate3D.__init__: the attributes that are stored objects.  The
\* image pointer is created with objDoStore=False and _boxSize is a plain
\* int, so neither is a column of the stored coordinate.
Coordinate3DAttrs == {"_transform", "_groupId", "_imageId"}

\* Coordinate3D.getImageId
getImageId(coord) == coord.imageId

\* Coordinate3D.getFluoImage
getFluoImage(coord) == coord.fluoImage

\* The value of a stored column of a coordinate, as the where clause sees it.
AttrValue(coord, col) == IF col = "_imageId" THEN coord.imageId ELSE ""

\* A coordinate read back from the store: its image pointer is lost.
Stored(i, id) == [objId |-> i, imageId |-> id, fluoImage |-> NoneImage]

\* Set.iterItems(where=..., orderBy='id'): the rows matching the where
\* clause in objId order; a where clause on a name that is no column of the
\* item fails in the database.
iterItems(store, where) ==
    IF where.all
    THEN [status |-> "ok", rows |-> store]
    ELSE IF where.col \notin Coordinate3DAttrs
    THEN [status |-> "error", rows |-> <<>>]
    ELSE [status |-> "ok",
          rows |-> SelectSeq(store, LAMBDA c : AttrValue(c, where.col) = where.val)]

\* Set.aggregate(['count'], col, [col]): the distinct values of a column;
\* fails on a name that is no column of the item.
aggregate(store, col) ==
    IF col \notin Coordinate3DAttrs
    THEN [status |-> "error", values |-> {}]
    ELSE [status |-> "ok", values |-> {AttrValue(store[i], col) : i \in DOMAIN store}]

\* getPrecedents()[{"_imgId": imgId}]: the first image of the precedents
\* with that _imgId, None when there is none.
PrecedentLookup(items, imgId) ==
    LET hits == {i \in DOMAIN items : items[i].imgId = imgId}
    IN  IF hits = {} THEN NoneImage
        ELSE items[CHOOSE i \in hits : \A j \in hits : i <= j]

\* SetOfCoordinates3D._getFluoImages: the dictionary, a fresh empty one
\* when _images is None.
getFluoImagesDict(images) == IF images.isNone THEN {} ELSE images.entries

\* A wrong lookup: the first precedent whatever the id.
getFluoImageFirst(images, precs, imgId) ==
    IF ~precs.isSet THEN [status |-> "error", image |-> NoneImage]
    ELSE [status |-> "ok",
          image |-> IF Len(precs.items) = 0 THEN NoneImage ELSE precs.items[1]]

\* SetOfCoordinates3D._getFluoImage: the image of an imgId.  The local
\* dictionary imgs is never stored back into self._images, so the lookup
\* in the precedents is made on every call and _images is left as it was.
getFluoImageOf(images, precs, imgId) ==
    IF imgId \notin {e[1] : e \in getFluoImagesDict(images)}
    THEN IF ~precs.isSet
         THEN [status |-> "error", image |-> NoneImage]
         ELSE [status |-> "ok", image |-> PrecedentLookup(precs.items, imgId)]
    ELSE [status |-> "ok",
          image |-> (CHOOSE e \in getFluoImagesDict(images) : e[1] = imgId)[2]]

\* SetOfCoordinates3D._associateImage
associateImage(images, precs, coord) ==
    LET r == getFluoImageOf(images, precs, getImageId(coord))
    IN  [status |-> r.status, coord |-> [coord EXCEPT !.fluoImage = r.image]]

\* The coordinates a generator yields before one of them fails.
RECURSIVE AssociateAll(_, _, _)
AssociateAll(images, precs, rows) ==
    IF rows = <<>> THEN [status |-> "ok", out |-> <<>>]
    ELSE LET h == associateImage(images, precs, Head(rows))
         IN  IF h.status # "ok" THEN [status |-> "error", out |-> <<>>]
             ELSE LET t == AssociateAll(images, precs, Tail(rows))
                  IN  [status |-> t.status, out |-> <<h.coord>> \o t.out]

\* The where clause of iterCoordinates.
coordWhere(image) ==
    IF image = NoneImage
    THEN [all |-> TRUE, col |-> "", val |-> ""]
    ELSE [all |-> FALSE, col |-> "_imgId", val |-> image.imgId]

NoOp == [name |-> "none", image |-> NoneImage, itemId |-> 0, status |-> "ok",
         out |-> <<>>, isNone |-> TRUE, dict |-> {}]

CoordsIdle ==
    /\ coords = <<>>
    /\ precedents = [isSet |-> FALSE, items |-> <<>>]
    /\ cImages = [isNone |-> TRUE, entries |-> {}]
    /\ cOp = NoOp

\* SetOfCoordinates3D.append
AppendCoordinate(id) ==
    /\ Len(coords) < MaxCoords
    /\ coords' = Append(coords, Stored(Len(coords) + 1, id))
    /\ cOp' = [NoOp EXCEPT !.name = "append"]
    /\ UNCHANGED <<precedents, cImages, notCoordVars>>

\* SetOfCoordinates3D.setPrecedents
SetPrecedents(ps) ==
    /\ precedents' = [isSet |-> TRUE, items |-> ps]
    /\ cOp' = [NoOp EXCEPT !.name = "setPrecedents"]
    /\ UNCHANGED <<coords, cImages, notCoordVars>>

\* SetOfCoordinates3D.iterCoordinates, run to the end of the generator.
IterCoordinates(image) ==
    LET q == iterItems(coords, coordWhere(image))
        r == AssociateAll(cImages, precedents, q.rows)
    IN  /\ cOp' = [NoOp EXCEPT !.name = "iterCoordinates", !.image = image,
                     !.status = IF q.status = "ok" THEN r.status ELSE "error",
                     !.out = r.out]
        /\ UNCHANGED <<coords, precedents, cImages, notCoordVars>>

\* SetOfCoordinates3D.__getitem__
GetItem(itemId) ==
    LET r == IF itemId \in DOMAIN coords
             THEN associateImage(cImages, precedents, coords[itemId])
             ELSE [status |-> "error", coord |-> Stored(0, "None")]
    IN  /\ cOp' = [NoOp EXCEPT !.name = "getitem", !.itemId = itemId,
                     !.status = r.status,
                     !.out = IF r.status = "ok" THEN <<r.coord>> ELSE <<>>]
        /\ UNCHANGED <<coords, precedents, cImages, notCoordVars>>

\* SetOfCoordinates3D.getFirstItem
GetFirstItem ==
    LET r == IF coords # <<>>
             THEN associateImage(cImages, precedents, coords[1])
             ELSE [status |-> "error", coord |-> Stored(0, "None")]
    IN  /\ cOp' = [NoOp EXCEPT !.name = "getFirstItem",
                     !.status = r.status,
                     !.out = IF r.status = "ok" THEN <<r.coord>> ELSE <<>>]
        /\ UNCHANGED <<coords, precedents, cImages, notCoordVars>>

\* SetOfCoordinates3D.getPrecedentsInvolved: the aggregate over "_imgId",
\* one _getFluoImage call per row, then self._images is returned.
getPrecedentsInvolved(store, images, precs) ==
    LET rows == aggregate(store, "_imgId")
        looked == {getFluoImageOf(images, precs, id) : id \in rows.values}
    IN  IF rows.status # "ok" \/ \E l \in looked : l.status # "ok"
        THEN [status |-> "error", isNone |-> TRUE, dict |-> {}]
        ELSE [status |-> "ok", isNone |-> images.isNone,
              dict |-> getFluoImagesDict(images)]

GetPrecedentsInvolved ==
    LET r == getPrecedentsInvolved(coords, cImages, precedents)
    IN  /\ cOp' = [NoOp EXCEPT !.name = "getPrecedentsInvolved",
                     !.status = r.status, !.isNone = r.isNone, !.dict = r.dict]
        /\ UNCHANGED <<coords, precedents, cImages, notCoordVars>>

\* SetOfCoordinates3D.getPrecedent: getPrecedentsInvolved()[imgId]
GetPrecedent(imgId) ==
    LET r == getPrecedentsInvolved(coords, cImages, precedents)
        found == r.status = "ok" /\ ~r.isNone /\ \E e \in r.dict : e[1] = imgId
    IN  /\ cOp' = [NoOp EXCEPT !.name = "getPrecedent",
                     !.image = FluoImage(0, imgId),
                     !.status = IF found THEN "ok" ELSE "error",
                     !.dict = IF found THEN {e \in r.dict : e[1] = imgId} ELSE {}]
        /\ UNCHANGED <<coords, precedents, cImages, notCoordVars>>

CoordsNext ==
    \/ \E id \in ImgIds : AppendCoordinate(id)
    \/ \E ps \in PrecedentChoices : SetPrecedents(ps)
    \/ \E image \in Images \cup {NoneImage} : IterCoordinates(image)
    \/ \E itemId \in 1..MaxCoords : GetItem(itemId)
    \/ GetFirstItem
    \/ GetPrecedentsInvolved
    \/ \E imgId \in ImgIds : GetPrecedent(imgId)

\* The precedents hold an image for every stored image id.
PrecedentsComplete ==
    /\ precedents.isSet
    /\ \A i \in DOMAIN coords :
        \E k \in DOMAIN precedents.items : precedents.items[k].imgId = coords[i].imageId

\* C1: with complete precedents, every coordinate handed out by
\* iterCoordinates, __getitem__ or getFirstItem carries the precedent image
\* whose imgId is the coordinate's image id, never None.
C1_ReturnedCoordinatesHaveImage ==
    (PrecedentsComplete /\ cOp.name \in {"iterCoordinates", "getitem", "getFirstItem"})
    => \A k \in DOMAIN cOp.out :
          /\ getFluoImage(cOp.out[k]) # NoneImage
          /\ getFluoImage(cOp.out[k]).imgId = getImageId(cOp.out[k])
          /\ \E p \in DOMAIN precedents.items :
                precedents.items[p] = getFluoImage(cOp.out[k])

C1_Witness ==
    /\ PrecedentsComplete
    /\ cOp.name = "iterCoordinates"
    /\ Len(cOp.out) = 2
    /\ cOp.out[1].imageId # cOp.out[2].imageId
    /\ Len(precedents.items) = 2

\* The stored coordinates of an image, in objId order.
CoordsOfImage(image) == SelectSeq(coords, LAMBDA c : c.imageId = image.imgId)

\* What a call handed out, without the image pointers.
OutStored == [k \in DOMAIN cOp.out |-> [cOp.out[k] EXCEPT !.fluoImage = NoneImage]]

\* C2: iterCoordinates(image) yields exactly the stored coordinates of that
\* image, once each and in order, and iterCoordinates(None) yields them all.
C2_IterYieldsCoordinatesOfImage ==
    (PrecedentsComplete /\ cOp.name = "iterCoordinates")
    => IF cOp.image = NoneImage
       THEN OutStored = coords
       ELSE OutStored = CoordsOfImage(cOp.image)

\* The image ids occurring among the coordinates.
InvolvedIds == {coords[i].imageId : i \in DOMAIN coords}

\* C3: getPrecedentsInvolved returns a dictionary from exactly the involved
\* image ids to their precedent images, and getPrecedent(imgId) returns the
\* image of every involved imgId.
C3_PrecedentsInvolvedIsExact ==
    /\ (PrecedentsComplete /\ cOp.name = "getPrecedentsInvolved")
       => /\ cOp.status = "ok"
          /\ ~cOp.isNone
          /\ cOp.dict = {<<id, PrecedentLookup(precedents.items, id)>> : id \in InvolvedIds}
    /\ (PrecedentsComplete /\ cOp.name = "getPrecedent" /\ cOp.image.imgId \in InvolvedIds)
       => /\ cOp.status = "ok"
          /\ cOp.dict = {<<cOp.image.imgId,
                           PrecedentLookup(precedents.items, cOp.image.imgId)>>}

(***************************************************************************)
(* Specifications                                                          *)
(***************************************************************************)

CoordsInit == CoordsIdle /\ StepsIdle /\ ViewersIdle /\ ImagesIdle /\ CopyIdle /\ TransformIdle /\ MatrixIdle /\ OriginIdle /\ SeparateIdle /\ OutputIdle

SpecCoords == CoordsInit /\ [][CoordsNext]_vars

StepsInit == StepsIdle /\ CoordsIdle /\ ViewersIdle /\ ImagesIdle /\ CopyIdle /\ TransformIdle /\ MatrixIdle /\ OriginIdle /\ SeparateIdle /\ OutputIdle

StepsNext ==
    \/ \E p \in Protocols : InsertAllSteps(p)
    \/ \E p \in Protocols : StartStep(p)
    \/ \E p \in Protocols : FinishStep(p)
    \/ \E p \in Protocols : FailStep(p)

SpecSteps == StepsInit /\ [][StepsNext]_vars

\* The status of the named step of a protocol, "absent" before insertion.
StatusOf(p, name) ==
    LET hits == {i \in DOMAIN protSteps[p] : protSteps[p][i].name = name}
    IN  IF hits = {} THEN "absent" ELSE protSteps[p][CHOOSE i \in hits : TRUE].status

Started(p, name) == StatusOf(p, name) \in {"running", "finished", "failed"}

\* C4: steps run in insertion order: reconstructionStep starts only after
\* prepareStep finished and createOutputStep only after reconstructionStep
\* finished; trainStep starts only after prepareStep finished; after a step
\* failed no later step runs.
C4_StepsRunInInsertionOrder ==
    /\ Started("ProtSingleParticleRefinement", "reconstructionStep")
          => StatusOf("ProtSingleParticleRefinement", "prepareStep") = "finished"
    /\ Started("ProtSingleParticleRefinement", "createOutputStep")
          => StatusOf("ProtSingleParticleRefinement", "reconstructionStep") = "finished"
    /\ \A p \in {"ProtSingleParticlePickingTrain", "ProtSPFluoPickingTrain"} :
          Started(p, "trainStep") => StatusOf(p, "prepareStep") = "finished"
    /\ \A p \in Protocols : \A i \in DOMAIN protSteps[p] :
          protSteps[p][i].status = "failed"
          => \A j \in (i + 1)..Len(protSteps[p]) : protSteps[p][j].status = "new"

C4_Witness ==
    /\ StatusOf("ProtSingleParticleRefinement", "createOutputStep") = "running"
    /\ StatusOf("ProtSingleParticlePickingTrain", "trainStep") = "finished"
    /\ StatusOf("ProtSPFluoPickingTrain", "prepareStep") = "failed"

ViewersInit == ViewersIdle /\ CoordsIdle /\ StepsIdle /\ ImagesIdle /\ CopyIdle /\ TransformIdle /\ MatrixIdle /\ OriginIdle /\ SeparateIdle /\ OutputIdle

ViewersNext ==
    \/ ImageViewShow
    \/ SetOfImagesViewShow
    \/ SetOfParticlesViewShow
    \/ \E im \in DialogImages : DoubleClickOnFluoimage(im)
    \/ \E t \in 1..MaxLaunches : SaveTranslations(t)
    \/ \E t \in 1..MaxLaunches : RunJob(t)
    \/ \E t \in 1..MaxLaunches : ViewerReadsCoords(t)
    \/ \E t \in 1..MaxLaunches : ViewerExit(t)

SpecViewers == ViewersInit /\ [][ViewersNext]_vars

\* The threads whose viewer has been started and has not exited.
Viewing == {t \in DOMAIN threads : threads[t].state = "viewing"}

\* C5: a launch starts a new thread and returns without waiting for the
\* viewer, leaving the earlier threads as they are; whatever is running,
\* every launch can still be made.
C5_LaunchesAreFireAndForget ==
    /\ [](Len(threads) < MaxLaunches
            => /\ ENABLED ImageViewShow
               /\ ENABLED SetOfImagesViewShow
               /\ ENABLED SetOfParticlesViewShow
               /\ \A im \in DialogImages : ENABLED DoubleClickOnFluoimage(im))
    /\ [][Len(threads') > Len(threads)
            => /\ Len(threads') = Len(threads) + 1
               /\ threads'[Len(threads')].state = "started"
               /\ \A t \in DOMAIN threads : threads'[t] = threads[t]]_vars

C5_Witness ==
    /\ Len(threads) = 3
    /\ Viewing = {1, 2}
    /\ threads[3].state = "started"
    /\ threads[1].view = "SetOfCoordinates3DDialog"
    /\ threads[2].view = "ImageView"
    /\ threads[3].view = "SetOfCoordinates3DDialog"

ImagesInit == ImagesIdle /\ CoordsIdle /\ StepsIdle /\ ViewersIdle /\ CopyIdle /\ TransformIdle /\ MatrixIdle /\ OriginIdle /\ SeparateIdle /\ OutputIdle

ImagesNext ==
    \/ \E image \in ImageInputs : SetOfImagesAppend(image)
    \/ \E sr \in SamplingRates \ {<<>>} : SetOfImagesSetSamplingRate(sr)

SpecImages == ImagesInit /\ [][ImagesNext]_vars

\* The last call was an append that added its image.
Appended == imgOp.name = "append" /\ imgOp.result = "ok"

\* The last call was an append that raised ValueError and added nothing.
Rejected ==
    /\ imgOp.name = "append"
    /\ imgOp.result = "ValueError"
    /\ imgSet.items = imgOp.before.items

\* C6 as stated: with a sampling rate set before, a successful append
\* leaves the appended image with the set's rate and a different rate is
\* rejected; with none set and an image that has one, the set adopts it.
C6_AppendReconcilesSamplingRate ==
    imgOp.name = "append" =>
        /\ (imgOp.before.samplingRate # <<>> /\ imgOp.result = "ok")
              => /\ imgSet.samplingRate = imgOp.before.samplingRate
                 /\ imgSet.items[Len(imgSet.items)].samplingRate = imgSet.samplingRate
        /\ (imgOp.before.samplingRate # <<>> /\ imgOp.image.samplingRate # <<>>
               /\ imgOp.image.samplingRate # imgOp.before.samplingRate)
              => Rejected
        /\ (imgOp.before.samplingRate = <<>> /\ imgOp.image.samplingRate # <<>>)
              => imgSet.samplingRate = imgOp.image.samplingRate

\* C6 amended: as stated, the set adopting the rate of a non-empty image
\* only (an empty image is rejected before the rates are looked at).
C6_AppendReconcilesSamplingRateNonEmpty ==
    imgOp.name = "append" =>
        /\ (imgOp.before.samplingRate # <<>> /\ imgOp.result = "ok")
              => /\ imgSet.samplingRate = imgOp.before.samplingRate
                 /\ imgSet.items[Len(imgSet.items)].samplingRate = imgSet.samplingRate
        /\ (imgOp.before.samplingRate # <<>> /\ imgOp.image.samplingRate # <<>>
               /\ imgOp.image.samplingRate # imgOp.before.samplingRate)
              => Rejected
        /\ (imgOp.before.samplingRate = <<>> /\ imgOp.image.samplingRate # <<>>
               /\ ~isEmpty(imgOp.image))
              => imgSet.samplingRate = imgOp.image.samplingRate

C6_Witness ==
    /\ Appended
    /\ imgOp.before.samplingRate = <<1, 2>>
    /\ imgOp.image.samplingRate = <<>>
    /\ Len(imgSet.items) = 2
    /\ imgSet.items[1].samplingRate = <<1, 2>>

\* C7: the set's dimension is that of the first appended image, every
\* appended image has it, and an image of another dimension or of none is
\* rejected with ValueError.
C7_AppendKeepsOneDimension ==
    /\ imgSet.items # <<>>
          => /\ getDim(imgSet) = getDim(imgSet.items[1])
             /\ \A i \in DOMAIN imgSet.items : getDim(imgSet.items[i]) = getDim(imgSet)
             /\ getDim(imgSet) # <<>>
    /\ (imgOp.name = "append"
           /\ \/ getDim(imgOp.image) = <<>>
              \/ (imgOp.before.items # <<>>
                    /\ getDim(imgOp.image) # getDim(imgOp.before.items[1])))
          => Rejected

C7_Witness ==
    /\ Rejected
    /\ Len(imgSet.items) = 2
    /\ ~isEmpty(imgOp.image)
    /\ getDim(imgOp.image) = <<8, 8, 4>>
    /\ getDim(imgSet) = <<4, 4, 2>>
    /\ getSamplingRate(imgOp.image) = getSamplingRate(imgOp.before)

CopyInit == CopyIdle /\ CoordsIdle /\ StepsIdle /\ ViewersIdle /\ ImagesIdle /\ TransformIdle /\ MatrixIdle /\ OriginIdle /\ SeparateIdle /\ OutputIdle

CopyNext ==
    \/ \E otherSet \in OtherSets, hasCallback, hasIter, copyDisabledItems, doClone \in BOOLEAN :
          \E rejects \in SUBSET (DOMAIN otherSet) :
             CopyItemsCall(otherSet, hasCallback, hasIter, copyDisabledItems, doClone, rejects)
    \/ CopyItemsIteration
    \/ CopyItemsReturn

SpecCopy == CopyInit /\ [][CopyNext]_vars

\* The items of otherSet handled so far, in iteration order.
Handled == SubSeq(copy.otherSet, 1, copy.idx - 1)

\* C8: the receiving set holds, in otherSet's order, exactly the handled
\* items that are enabled (all of them with copyDisabledItems) and that the
\* callback did not flag with _appendItem = False.
C8_CopyItemsAppendsExactlyTheSelected ==
    [k \in DOMAIN dest |-> dest[k].id]
        = [k \in DOMAIN SelectSeq(Handled,
                LAMBDA it : /\ (it.enabled \/ copy.copyDisabledItems)
                            /\ ~(copy.hasCallback /\ it.id \in copy.rejects))
             |-> SelectSeq(Handled,
                LAMBDA it : /\ (it.enabled \/ copy.copyDisabledItems)
                            /\ ~(copy.hasCallback /\ it.id \in copy.rejects))[k].id]

C8_Witness ==
    /\ ~copy.running
    /\ Len(copy.otherSet) = 3
    /\ copy.copyDisabledItems
    /\ ~copy.otherSet[1].enabled
    /\ copy.rejects = {2}
    /\ Len(dest) = 2
    /\ dest[1].id = 1
    /\ dest[2].id = 3

\* C9: with a callback and an iterator, the iterator has been advanced
\* once per handled item, and the callback of the k-th item got row k.
C9_IteratorAdvancesOncePerItem ==
    (copy.hasCallback /\ copy.hasIter)
    => /\ copy.iterPos = copy.idx - 1
       /\ \A k \in DOMAIN copy.calls : copy.calls[k].row = copy.calls[k].item

C9_Witness ==
    /\ copy.hasCallback
    /\ copy.hasIter
    /\ ~copy.copyDisabledItems
    /\ ~copy.running
    /\ Len(copy.otherSet) = 3
    /\ ~copy.otherSet[1].enabled
    /\ ~copy.otherSet[2].enabled
    /\ copy.calls = <<[item |-> 3, row |-> 3]>>

TransformInit ==
    /\ TransformIdle /\ CoordsIdle /\ StepsIdle /\ ViewersIdle /\ ImagesIdle /\ CopyIdle
    /\ MatrixIdle
    /\ OriginIdle
    /\ SeparateIdle
    /\ OutputIdle

TransformNext ==
    \/ \E type \in FactoryTypes \cup {"rot"} : TransformCreate(type)
    \/ \E type \in FactoryTypes : TransformCompose(type)

SpecTransform == TransformInit /\ [][TransformNext]_vars

\* The axis a factory type names, as an index.
AxisOf(type) ==
    CASE type \in {"rotX90c", "rotX90cc"} -> 1
      [] type \in {"rotY90c", "rotY90cc"} -> 2
      [] type \in {"rotZ90c", "rotZ90cc"} -> 3

\* R times its transpose, for a 3x3 R.
TimesTranspose(R) ==
    [i \in 1..3 |-> [j \in 1..3 |->
        R[i][1] * R[j][1] + R[i][2] * R[j][2] + R[i][3] * R[j][3]]]

Det3(R) ==
    R[1][1] * (R[2][2] * R[3][3] - R[2][3] * R[3][2])
    - R[1][2] * (R[2][1] * R[3][3] - R[2][3] * R[3][1])
    + R[1][3] * (R[2][1] * R[3][2] - R[2][2] * R[3][1])

\* M is a pure rotation by 90 degrees about the axis: orthonormal with
\* determinant 1, the axis kept, trace 1, no translation, last row 0 0 0 1.
IsRotation90About(M, axis) ==
    LET R == getRotationMatrix(M)
    IN  /\ TimesTranspose(R) = getRotationMatrix(Eye4)
        /\ Det3(R) = 1
        /\ \A i \in 1..3 : R[i][axis] = (IF i = axis THEN 1 ELSE 0)
        /\ R[1][1] + R[2][2] + R[3][3] = 1
        /\ getShifts(M) = <<0, 0, 0>>
        /\ M[4] = <<0, 0, 0, 1>>

\* C10: the transform of every factory type is a pure 90 degree rotation
\* about the named axis.
C10_FactoryTransformsAreRotations ==
    (tf.made \in FactoryTypes /\ tf.composed = <<>>)
    => IsRotation90About(tf.matrix, AxisOf(tf.made))

\* The factory type of the opposite rotation about the same axis.
Opposite(type) ==
    CASE type = "rotX90c" -> "rotX90cc"
      [] type = "rotX90cc" -> "rotX90c"
      [] type = "rotY90c" -> "rotY90cc"
      [] type = "rotY90cc" -> "rotY90c"
      [] type = "rotZ90c" -> "rotZ90cc"
      [] type = "rotZ90cc" -> "rotZ90c"

\* C11: composing a factory transform with the matrix of the opposite type
\* gives the identity, and so does applying one factory rotation four times.
C11_OppositeRotationsAreInverses ==
    tf.made \in FactoryTypes =>
        /\ tf.composed = <<Opposite(tf.made)>> => tf.matrix = Eye4
        /\ tf.composed = <<tf.made, tf.made, tf.made>> => tf.matrix = Eye4

MatrixInit ==
    /\ MatrixIdle /\ CoordsIdle /\ StepsIdle /\ ViewersIdle /\ ImagesIdle /\ CopyIdle
    /\ TransformIdle
    /\ OriginIdle
    /\ SeparateIdle
    /\ OutputIdle

MatrixNext ==
    \/ \E x, y \in MatrixObjects : MatrixCopy(x, y)
    \/ \E x \in MatrixObjects, c \in MatrixCells, value \in MatrixValues :
          MatrixSetValue(x, c[1], c[2], value)
    \/ \E x, y \in MatrixObjects : MatrixSetMatrix(x, y)

SpecMatrix == MatrixInit /\ [][MatrixNext]_vars

\* C12: right after a._copy(b) the two matrices are equal element by
\* element, and a later setValue on either leaves the other's as it was.
C12_CopyIsIndependent ==
    /\ mOp.name = "_copy"
          => \A i, j \in 1..4 :
                getMatrix(mat, mOp.target)[i][j] = mOp.before[mOp.source][i][j]
    /\ \A l \in linked :
          (mOp.name = "setValue" /\ mOp.target \in {l[1], l[2]})
          => getMatrix(mat, Other(mOp.target)) = mOp.before[Other(mOp.target)]

C12_Witness ==
    /\ <<"a", "b">> \in linked
    /\ mOp.name = "setValue"
    /\ mOp.target = "b"
    /\ mat["b"][1][4] = 7
    /\ mat["a"][1][4] = 0
    /\ mat["a"][1][1] = 7
    /\ mat["b"][1][1] = 1

OriginInit ==
    /\ OriginIdle /\ CoordsIdle /\ StepsIdle /\ ViewersIdle /\ ImagesIdle /\ CopyIdle
    /\ TransformIdle /\ MatrixIdle
    /\ SeparateIdle
    /\ OutputIdle

OriginNext ==
    \/ \E dim \in OriginDims : ImageNew(dim)
    \/ \E samplingRate \in OriginSamplingRates : ImageSetSamplingRate(samplingRate)
    \/ ImageSetOriginNone
    \/ \E shifts \in GivenShifts : ImageSetOrigin(shifts)
    \/ \E dim \in OriginDims, samplingRate \in OriginSamplingRates :
          ImportFluoImage(dim, samplingRate)

SpecOrigin == OriginInit /\ [][OriginNext]_vars

\* C13: after setOrigin(None) on an image with dimensions (x, y, z) and
\* sampling rate (sr_xy, sr_z) the shifts are (-x/2 sr_xy, -y/2 sr_xy,
\* -z/2 sr_z), the shifts importFluoImagesStep gives the same image.
C13_DefaultOriginIsBoxCentre ==
    (oOp = "setOrigin(None)" /\ oImage.dim # <<>> /\ oImage.samplingRate # <<>>)
        => /\ oImage.origin = <<-(oImage.dim[1] * oImage.samplingRate[1]),
                               -(oImage.dim[2] * oImage.samplingRate[1]),
                               -(oImage.dim[3] * oImage.samplingRate[2])>>
           /\ oImage.origin = importOrigin(oImage.dim, oImage.samplingRate)

SeparateInit ==
    /\ SeparateIdle /\ CoordsIdle /\ StepsIdle /\ ViewersIdle /\ ImagesIdle /\ CopyIdle
    /\ TransformIdle /\ MatrixIdle /\ OriginIdle
    /\ OutputIdle

SeparateNext ==
    \/ \E precs \in SepPrecedents :
          \E coordinates \in SepCoordinates(precs) : SeparateStepBegin(precs, coordinates)
    \/ SeparateNextImage
    \/ SeparateCentrioles
    \/ SeparateFails
    \/ SeparateAppend
    \/ SeparateImageDone
    \/ SeparateWrite
    \/ SeparateDefineOutputs

SpecSeparate == SeparateInit /\ [][SeparateNext]_vars

C15_ViewerReadsItsOwnCoordinates ==
    \A t \in DOMAIN threads :
        (threads[t].view = "SetOfCoordinates3DDialog" /\ viewerRead[t].done)
            => viewerRead[t].coords = DialogCoordinates[threads[t].arg]

OutputInit ==
    /\ OutputIdle /\ CoordsIdle /\ StepsIdle /\ ViewersIdle /\ ImagesIdle /\ CopyIdle
    /\ TransformIdle /\ MatrixIdle /\ OriginIdle /\ SeparateIdle

OutputNext ==
    \/ \E particles \in InputParticles, poses \in PosesFiles :
          CreateOutputStepBegin(particles, poses)
    \/ CreateOutputParticle
    \/ CreateOutputLinkFails
    \/ CreateOutputWrite
    \/ CreateOutputDefineOutputs

SpecOutput == OutputInit /\ [][OutputNext]_vars

\* The input particles the poses file has no entry for.
MissingPoses ==
    {k \in DOMAIN outIn.particles : poseKey(outIn.particles[k]) \notin DOMAIN outIn.poses}

\* C16: createOutputStep defines its outputs in at most one call, which
\* names exactly reconstructedVolume and particles and comes after one
\* particle per input particle was appended with the pose of
\* 'particles/<id>.ome.tiff' and the set was written; when the poses file
\* lacks an entry of an input particle the step does not finish and nothing
\* is defined.
C16_OutputsDefinedOnceAfterWrite ==
    /\ Len(outStep.defined) <= 1
    /\ outStep.pc = "finished" <=> Len(outStep.defined) = 1
    /\ outStep.defined # <<>> =>
          /\ outStep.defined[1].names = {"reconstructedVolume", "particles"}
          /\ outStep.defined[1].written
          /\ outStep.defined[1].size = Len(outStep.out)
          /\ Len(outStep.out) = Len(outIn.particles)
          /\ \A k \in DOMAIN outStep.out :
                /\ outStep.out[k].id = outIn.particles[k]
                /\ <<"particles/", outStep.out[k].id, ".ome.tiff">> \in DOMAIN outIn.poses
                /\ outStep.out[k].transform =
                      outIn.poses[<<"particles/", outStep.out[k].id, ".ome.tiff">>]
    /\ MissingPoses # {} =>
          /\ outStep.defined = <<>>
          /\ outStep.pc \notin {"write", "finished"}
          /\ outStep.particles = <<>> => outStep.pc \in {"idle", "failed"}

C16_Witness ==
    /\ outStep.pc = "finished"
    /\ outIn.particles = <<2, 1>>
    /\ outStep.out = <<[id |-> 2, transform |-> "r1"], [id |-> 1, transform |-> "r0"]>>
    /\ <<"isotropic/", 1, ".ome.tiff">> \in DOMAIN outIn.poses

====
